---- MODULE Spec2Model ----
(***************************************************************************)
(* A model of the JPK reader of afmformats: the archive cache              *)
(* (ArchiveCache), the entry listing and index enumeration, the property   *)
(* resolution and metadata aggregation (JPKReader), and the dataset with   *)
(* its segment views (AFMForceDistance, Segment).                          *)
(*                                                                         *)
(* Each component has its own specification over its own variables; the    *)
(* variables of the other components keep their initial value.             *)
(***************************************************************************)
EXTENDS Integers, Sequences, FiniteSets, TLC

VARIABLES
    \* ---- ArchiveCache (jpk_reader.py:17-50)
    open_archives,  \* the OrderedDict: a sequence of [path, arc], oldest first
    nhandles,       \* number of ZipFile handles opened so far (handles 1..nhandles)
    closed,         \* the handles on which close() has been called
    ret,            \* the handle returned by the last get (0: no call yet)
    clock,          \* history: number of get calls so far
    lastuse,        \* history: path -> clock of the last get of that path (0: never)
    hits,           \* history: number of gets of a resident path so far
    \* ---- JPKReader entry listing (jpk_reader.py:57-92, 244-263)
    nlist,          \* arc.namelist(): the entry names in archive order
    files,          \* the memoized value of JPKReader.files
    indices,        \* the memoized value of JPKReader.get_index_numbers()
    listing,        \* which of the two are computed, or the error raised
    \* ---- JPKReader._get_index_segment_properties (jpk_reader.py:94-181)
    arch,           \* the property tables of the archive (index 0, segment 0)
    prop_memo,      \* the lru_cache: segment -> the dict object it returns
    prop_ret,       \* the last call: its segment and the table it returned
    mutations,      \* history: number of writes of callers into returned tables
    \* ---- JPKReader.get_metadata (jpk_reader.py:312-418)
    arch_md,        \* curve index -> the readings of its segments
    md_memo,        \* the lru_cache: <<index, segment>> -> the record it returns
    md_ret,         \* the last call: arguments, result, and history of the call
    queries,        \* history: number of get_metadata calls of callers
    \* ---- AFMForceDistance, Segment (mod_force_distance.py)
    raw_data,       \* self._raw_data: column name -> values
    data,           \* self._data, the derived mapping: column name -> values
    set_ret,        \* the last __setitem__: arguments, error, the mapping before
    view,           \* the Segment made last by appr or retr
    item,           \* the result of the last __getitem__ on that Segment
    raw_init,       \* history: the raw mapping the dataset was made with
    writes,         \* history: number of __setitem__ calls
    seg_ret         \* the last get_data("segment", index, None) of the loader

cacheVars == <<open_archives, nhandles, closed, ret, clock, lastuse, hits>>

listVars == <<nlist, files, indices, listing>>

propVars == <<arch, prop_memo, prop_ret, mutations>>

metaVars == <<arch_md, md_memo, md_ret, queries>>

dataVars == <<raw_data, data, set_ret, view, item, raw_init, writes, seg_ret>>

vars == <<cacheVars, listVars, propVars, metaVars, dataVars>>

\* ---------------------------------------------------------------------
\* General helpers

Min(a, b) == IF a < b THEN a ELSE b

Max(a, b) == IF a > b THEN a ELSE b

Range(s) == {s[i] : i \in 1..Len(s)}

\* ---------------------------------------------------------------------
\* Strings.  A string is a sequence of tokens; a token stands for a fixed
\* run of characters ("/", ".", one digit, or a word).  No word is a prefix
\* of another token and the words start with different characters, so that
\* prefix tests and comparisons of token sequences are those of the
\* character strings.

Digits == <<"0", "1", "2", "3", "4", "5", "6", "7", "8", "9">>

IsDigit(t) == \E i \in 1..10 : Digits[i] = t

DigitVal(t) == (CHOOSE i \in 1..10 : Digits[i] = t) - 1

\* ord() of the first character of a token
Code(t) ==
    CASE t = "*" -> 42
      [] t = "-" -> 45
      [] t = "." -> 46
      [] t = "/" -> 47
      [] IsDigit(t) -> 48 + DigitVal(t)
      [] t = "N" -> 78
      [] t = "V" -> 86
      [] t = "channel" -> 99
      [] t = "force-segment-header" -> 102
      [] t = "header.properties" -> 104
      [] t = "index" -> 105
      [] t = "lcd-info" -> 108
      [] t = "nan" -> 110
      [] t = "position" -> 112
      [] t = "segments" -> 115
      [] t = "unit" -> 117
      [] t = "vDeflection" -> 118

\* str.count(sep) for a one-token separator
Count(x, sep) == Cardinality({i \in 1..Len(x) : x[i] = sep})

\* str.split(sep): the pieces between the separators, empty pieces included
RECURSIVE Split(_, _)
Split(x, sep) ==
    IF Count(x, sep) = 0
    THEN <<x>>
    ELSE LET i == CHOOSE k \in 1..Len(x) :
                     x[k] = sep /\ \A m \in 1..(k - 1) : x[m] # sep
         IN  <<SubSeq(x, 1, i - 1)>> \o Split(SubSeq(x, i + 1, Len(x)), sep)

\* sep.join(xs)
RECURSIVE Join(_, _)
Join(xs, sep) ==
    IF xs = <<>> THEN <<>>
    ELSE IF Len(xs) = 1 THEN xs[1]
    ELSE xs[1] \o <<sep>> \o Join(Tail(xs), sep)

\* str.startswith
StartsWith(x, prefix) ==
    Len(prefix) <= Len(x) /\ SubSeq(x, 1, Len(prefix)) = prefix

\* str.isnumeric() on the alphabet above
IsNumeric(x) == x # <<>> /\ \A i \in 1..Len(x) : IsDigit(x[i])

\* int(x) for a numeric string
RECURSIVE ToInt(_)
ToInt(x) ==
    IF x = <<>> THEN 0
    ELSE 10 * ToInt(SubSeq(x, 1, Len(x) - 1)) + DigitVal(x[Len(x)])

\* "{:d}".format(n)
RECURSIVE Decimal(_)
Decimal(n) ==
    IF n < 10 THEN <<Digits[n + 1]>>
    ELSE Decimal(n \div 10) \o <<Digits[(n % 10) + 1]>>

\* "{:0<width>d}".format(n): zero-padded to width, never truncated
ZeroPad(n, width) ==
    LET d == Decimal(n)
    IN  [i \in 1..Max(0, width - Len(d)) |-> "0"] \o d

\* x < y for Python strings: code points, a proper prefix comes first
StrLess(x, y) ==
    \E k \in 1..(Min(Len(x), Len(y)) + 1) :
        /\ \A m \in 1..(k - 1) : x[m] = y[m]
        /\ \/ k = Len(x) + 1 /\ k <= Len(y)
           \/ k <= Len(x) /\ k <= Len(y) /\ Code(x[k]) < Code(y[k])

\* =====================================================================
\* ArchiveCache
\* =====================================================================

max_archives == 32

\* Bounds of the cache model.
ExtraPaths == 2      \* distinct paths beyond the capacity
MaxCalls == 36       \* get calls in one run
MaxHits == 1         \* gets of a resident path in one run
HitReach == 3        \* a resident path is requested again only while it is
                     \* among the HitReach oldest entries

\* Paths are opaque names (compared for equality only, jpk_reader.py:38):
\* the k-th distinct path ever requested is named k.
Paths == 1..(max_archives + ExtraPaths)

CachedPaths(oa) == {oa[i].path : i \in 1..Len(oa)}

CachedArcs(oa) == {oa[i].arc : i \in 1..Len(oa)}

ArcOf(oa, zip_path) ==
    (CHOOSE i \in 1..Len(oa) : oa[i].path = zip_path)

\* OrderedDict.pop(key): the entry leaves, the order of the others is kept
Pop(oa, key) ==
    LET keep(e) == e.path # key IN SelectSeq(oa, keep)

\* A faulty insertion: assigning to a key that is still present keeps its position
InsertInPlace(oa, zip_path, arc) ==
    IF zip_path \in CachedPaths(oa)
    THEN oa
    ELSE Append(oa, [path |-> zip_path, arc |-> arc])

\* lines 38-42: pop the entry when present, then (re-)insert it at the end
Insert(oa, zip_path, arc) ==
    Append(Pop(oa, zip_path), [path |-> zip_path, arc |-> arc])

\* A faulty count: one handle too many is kept
TooManyOffByOne(oa) == Len(oa) - max_archives - 1

\* line 44
TooMany(oa) == Len(oa) - max_archives

\* line 46: list(open_archives.keys())[:too_many]
ToRemove(oa, too_many) == SubSeq(oa, 1, Min(too_many, Len(oa)))

\* ArchiveCache.get(zip_path), lines 36-50
Get(zip_path) ==
    LET hit == zip_path \in CachedPaths(open_archives)
        arc == IF hit
               THEN open_archives[ArcOf(open_archives, zip_path)].arc
               ELSE nhandles + 1
        inserted == Insert(open_archives, zip_path, arc)
        too_many == TooMany(inserted)
        to_remove == IF too_many > 0 THEN ToRemove(inserted, too_many) ELSE <<>>
    IN  /\ clock < MaxCalls
        /\ hit => hits < MaxHits
        /\ nhandles' = IF hit THEN nhandles ELSE nhandles + 1
        /\ open_archives' = SubSeq(inserted, Len(to_remove) + 1, Len(inserted))
        /\ closed' = closed \cup CachedArcs(to_remove)
        /\ ret' = arc
        /\ clock' = clock + 1
        /\ lastuse' = [lastuse EXCEPT ![zip_path] = clock + 1]
        /\ hits' = IF hit THEN hits + 1 ELSE hits

Requested == {p \in Paths : lastuse[p] > 0}

\* get of a path that is resident in the cache
GetResident ==
    \E i \in 1..Min(HitReach, Len(open_archives)) : Get(open_archives[i].path)

\* get of a path that was requested before and has been evicted since
GetEvicted ==
    \E p \in Requested \ CachedPaths(open_archives) : Get(p)

\* get of a path never requested before
GetNew ==
    /\ Cardinality(Requested) < Cardinality(Paths)
    /\ Get(Cardinality(Requested) + 1)

IdleCache ==
    /\ open_archives = <<>>
    /\ nhandles = 0
    /\ closed = {}
    /\ ret = 0
    /\ clock = 0
    /\ lastuse = [p \in Paths |-> 0]
    /\ hits = 0

OpenHandles == (1..nhandles) \ closed

\* =====================================================================
\* JPKReader: entry listing, hierarchy, index numbers
\* =====================================================================

\* Bound of the listing model: entries in one archive
MaxEntries == 4

E_index == <<"index", "/">>

E_segments == <<"segments", "/">>

IndexDir(digits) == <<"index", "/">> \o digits \o <<"/">>

\* The entry names the archives of the model are made of
EntryPool ==
    { E_index, E_segments, <<"header.properties">>,
      IndexDir(<<"1">>), IndexDir(<<"2">>), IndexDir(<<"1", "0">>),
      IndexDir(<<"2", "0">>), IndexDir(<<"1", "0", "0">>),
      IndexDir(<<"2">>) \o <<"segments", "/">> }

\* The archive listings: sequences of distinct names (a zip holds a name once)
RECURSIVE Listings(_)
Listings(n) ==
    IF n = 0 THEN {<<>>}
    ELSE LET shorter == Listings(n - 1)
         IN  shorter \cup
             { Append(l, e) : l \in {m \in shorter : Len(m) = n - 1},
                              e \in EntryPool } 

DistinctListings ==
    { l \in Listings(MaxEntries) :
        l # <<>> /\ \A i, j \in 1..Len(l) : i # j => l[i] # l[j] }

\* int(np.ceil(np.log10(n))) for n >= 1
RECURSIVE CeilLog10(_)
CeilLog10(n) == IF n <= 1 THEN 0 ELSE 1 + CeilLog10((n + 9) \div 10)

\* line 67
MaxDigits(names) == CeilLog10(Len(names)) + 1

\* lines 70-78
SortKey(x, maxdigits) ==
    IF Count(x, "/") > 0
    THEN LET xs == Split(x, "/")
             ys == [ii \in 1..Len(xs) |->
                       IF IsNumeric(xs[ii])
                       THEN ZeroPad(ToInt(xs[ii]), maxdigits)
                       ELSE xs[ii]]
         IN  Join(ys, "/")
    ELSE x

\* sorted(nlist, key=sortkey): a stable sort, each name goes behind the
\* names whose key is not greater
RECURSIVE SortedByKey(_, _)
SortedByKey(names, maxdigits) ==
    IF names = <<>> THEN <<>>
    ELSE LET front == SortedByKey(SubSeq(names, 1, Len(names) - 1), maxdigits)
             x == names[Len(names)]
             kx == SortKey(x, maxdigits)
             before(y) == ~StrLess(kx, SortKey(y, maxdigits))
             after(y) == StrLess(kx, SortKey(y, maxdigits))
         IN  SelectSeq(front, before) \o <<x>> \o SelectSeq(front, after)

\* JPKReader.files, lines 63-80
FilesOf(names) == SortedByKey(names, MaxDigits(names))

\* JPKReader.hierarchy, lines 84-92
HierarchyOf(fs) ==
    IF E_segments \in Range(fs) THEN "single"
    ELSE IF E_index \in Range(fs) THEN "indexed"
    ELSE "NotImplementedError"

\* lines 258-260
IsIndexDir(ff) ==
    /\ StartsWith(ff, E_index)
    /\ Count(ff, "/") = 2
    /\ ff[Len(ff)] = "/"

\* JPKReader.get_index_numbers, lines 245-263; int() of a segment that is
\* not numeric raises ValueError
IndexNumbersOf(fs) ==
    LET dirs == SelectSeq(fs, IsIndexDir)
    IN  [i \in 1..Len(dirs) |-> ToInt(Split(dirs[i], "/")[2])]

\* the files property is read
Files ==
    /\ "files" \notin listing
    /\ files' = FilesOf(nlist)
    /\ listing' = listing \cup {"files"}
    /\ UNCHANGED <<nlist, indices>>

\* get_index_numbers() is called; it reads hierarchy and files
GetIndexNumbers ==
    /\ listing \cap {"indices", "NotImplementedError"} = {}
    /\ LET fs == FilesOf(nlist)
           h == HierarchyOf(fs)
       IN  /\ files' = fs
           /\ IF h = "NotImplementedError"
              THEN /\ listing' = listing \cup {"files", h}
                   /\ UNCHANGED indices
              ELSE /\ listing' = listing \cup {"files", "indices"}
                   /\ indices' = IF h = "single" THEN <<0>> ELSE IndexNumbersOf(fs)
    /\ UNCHANGED nlist

IdleListing ==
    /\ nlist = <<>>
    /\ files = <<>>
    /\ indices = <<>>
    /\ listing = {}

StartListing ==
    /\ nlist \in DistinctListings
    /\ files = <<>>
    /\ indices = <<>>
    /\ listing = {}

\* =====================================================================
\* JPKReader._get_index_segment_properties
\* =====================================================================

\* A property value: the text read by jprops, or the float made of it
Str(x) == [kind |-> "str", val |-> x]

Float(x) == [kind |-> "float", val |-> x]

\* dict.update(other)
Update(t, other) ==
    [k \in DOMAIN t \cup DOMAIN other |->
        IF k \in DOMAIN other THEN other[k] ELSE t[k]]

\* d[key] = value
Put(t, key, value) ==
    [k \in DOMAIN t \cup {key} |-> IF k = key THEN value ELSE t[k]]

\* d.pop(key)
Drop(t, key) == [k \in DOMAIN t \ {key} |-> t[k]]

\* list(d.keys()) followed by sort()
RECURSIVE SortedKeys(_)
SortedKeys(S) ==
    IF S = {} THEN <<>>
    ELSE LET least == CHOOSE x \in S : \A y \in S \ {x} : StrLess(x, y)
         IN  <<least>> \o SortedKeys(S \ {least})

\* line 151: key.count(".*")
CountDotStar(key) ==
    Cardinality({i \in 1..(Len(key) - 1) : key[i] = "." /\ key[i + 1] = "*"})

\* line 157: ".".join(key.split(".")[-2:-1])
Mediator(key) ==
    LET comps == Split(key, ".")
    IN  IF Len(comps) >= 2 THEN comps[Len(comps) - 1] ELSE <<>>

\* A faulty head key: only the last component is stripped
HeadKeyOneOff(key) ==
    LET comps == Split(key, ".")
    IN  Join(SubSeq(comps, 1, Max(1, Len(comps) - 1)), ".")

\* line 159: key.rsplit(".", 2)[0]
HeadKey(key) ==
    LET comps == Split(key, ".")
    IN  Join(SubSeq(comps, 1, Max(1, Len(comps) - 2)), ".")

\* A faulty prefix: without the closing "."
StartIdNoDot(mediator, pindex) == mediator \o <<".">> \o pindex

\* line 162: "{}.{}.".format(mediator, pindex)
StartId(mediator, pindex) == mediator \o <<".">> \o pindex \o <<".">>

\* line 165: ".".join(k2.split(".")[2:])
Suffix(k2) ==
    LET comps == Split(k2, ".")
    IN  Join(SubSeq(comps, 3, Len(comps)), ".")

\* lines 163-166: the loop over the sorted shared keys for one key
RECURSIVE CopyShared(_, _, _, _, _)
CopyShared(prop, psprop, pslist, startid, headkey) ==
    IF pslist = <<>> THEN prop
    ELSE LET k2 == Head(pslist)
             next == IF StartsWith(k2, startid)
                     THEN Put(prop, Join(<<headkey, Suffix(k2)>>, "."), psprop[k2])
                     ELSE prop
         IN  CopyShared(next, psprop, Tail(pslist), startid, headkey)

\* lines 149-166: the loop over the keys the table had before the loop
RECURSIVE Substitute(_, _, _, _)
Substitute(prop, psprop, proplist, pslist) ==
    IF proplist = <<>> THEN prop
    ELSE LET key == Head(proplist)
             next == IF CountDotStar(key) > 0
                     THEN CopyShared(prop, psprop, pslist,
                                     StartId(Mediator(key), prop[key].val),
                                     HeadKey(key))
                     ELSE prop
         IN  Substitute(next, psprop, Tail(proplist), pslist)

\* float(value) succeeds (on the values of the model: digits, or "nan")
ParsesAsFloat(value) ==
    value.kind = "float" \/ IsNumeric(value.val) \/ value.val = <<"nan">>

IsNaN(value) == value.val = <<"nan">>

\* float(value) of a numeric text, named by its canonical decimal
ToFloat(value) ==
    IF value.kind = "float" \/ IsNaN(value) THEN Float(value.val)
    ELSE Float(Decimal(ToInt(value.val)))

\* lines 173-180: numbers become floats, NaNs are removed
Coerce(prop) ==
    LET kept == {p \in DOMAIN prop :
                    ~(ParsesAsFloat(prop[p]) /\ IsNaN(prop[p]))}
    IN  [p \in kept |-> IF ParsesAsFloat(prop[p]) THEN ToFloat(prop[p]) ELSE prop[p]]

\* lines 128-139: the index table, overlaid with the segment table
Merged(archive, segment) ==
    IF segment # "None"
    THEN Update(archive.index, archive.segment)
    ELSE archive.index

\* The table built by lines 128-181
Properties(archive, segment) ==
    LET prop == Merged(archive, segment)
        psprop == archive.shared
        proplist == SortedKeys(DOMAIN prop)
        pslist == SortedKeys(DOMAIN psprop)
        substituted == Substitute(prop, psprop, proplist, pslist)
    IN  Coerce(Update(substituted, archive.general))

\* ---- the archives of the model

Key(comps) == Join(comps, ".")

KStar == Key(<<<<"channel">>, <<"vDeflection">>, <<"lcd-info">>, <<"*">>>>)

KZero == Key(<<<<"channel">>, <<"vDeflection">>, <<"lcd-info">>, <<"0">>>>)

KPos == Key(<<<<"channel">>, <<"vDeflection">>, <<"position">>, <<"*">>>>)

KTwo == Key(<<<<"lcd-info">>, <<"*">>>>)

KUnit == Key(<<<<"channel">>, <<"vDeflection">>, <<"unit">>>>)

KHeaderUnit ==
    Key(<<<<"channel">>, <<"vDeflection">>, <<"force-segment-header">>, <<"unit">>>>)

SharedKey(mediator, pointer, rest) == Key(<<<<mediator>>, pointer>> \o rest)

HeaderUnit == <<<<"force-segment-header">>, <<"unit">>>>

\* Entries of the header.properties of the index
IndexEntries ==
    { <<KStar, Str(<<"1">>)>>, <<KPos, Str(<<"1">>)>>,
      <<KTwo, Str(<<"1", "0">>)>>, <<KUnit, Str(<<"V">>)>> }

\* Entries of the segment-header.properties of the segment
SegmentEntries ==
    { <<KStar, Str(<<"3">>)>>, <<KZero, Str(<<"3">>)>> }

\* Entries of shared-data/header.properties
SharedEntries ==
    { <<SharedKey("lcd-info", <<"3">>, HeaderUnit), Str(<<"N">>)>>,
      <<SharedKey("lcd-info", <<"1">>, HeaderUnit), Str(<<"nan">>)>>,
      <<SharedKey("lcd-info", <<"1">>, HeaderUnit), Str(<<"2">>)>>,
      <<SharedKey("lcd-info", <<"1", "0">>, HeaderUnit), Str(<<"V">>)>>,
      <<SharedKey("position", <<"1">>, HeaderUnit), Str(<<"V">>)>>,
      <<SharedKey("lcd-info", <<"1">>, <<<<"unit">>>>), Str(<<"N">>)>> }

\* Entries of the top-level header.properties
GeneralEntries ==
    { <<KHeaderUnit, Str(<<"V">>)>>, <<KUnit, Str(<<"0", "2">>)>> }

\* Bounds of the property model
MaxShared == 2       \* entries of the shared table
MaxGeneral == 1      \* entries of the general table
MaxMutations == 1    \* writes of a caller into a returned table

\* The tables of at most n entries made of the entries of a pool
TablesOf(pool, n) ==
    LET keys(es) == {e[1] : e \in es}
        sets == {es \in SUBSET pool :
                    Cardinality(es) <= n /\ Cardinality(keys(es)) = Cardinality(es)}
    IN  { [k \in keys(es) |-> (CHOOSE e \in es : e[1] = k)[2]] : es \in sets }

Archives ==
    [index : TablesOf(IndexEntries, Cardinality(IndexEntries)),
     segment : TablesOf(SegmentEntries, Cardinality(SegmentEntries)),
     shared : TablesOf(SharedEntries, MaxShared),
     general : TablesOf(GeneralEntries, MaxGeneral)]

\* _get_index_segment_properties(0, segment) under functools.lru_cache
\* (line 116): a repeated call returns the dict object of the first call
GetProperties(segment) ==
    /\ IF segment \in DOMAIN prop_memo
       THEN /\ prop_ret' = [segment |-> segment, computed |-> FALSE,
                            table |-> prop_memo[segment]]
            /\ UNCHANGED prop_memo
       ELSE /\ prop_memo' = Put(prop_memo, segment, Properties(arch, segment))
            /\ prop_ret' = [segment |-> segment, computed |-> TRUE,
                            table |-> prop_memo'[segment]]
    /\ prop_ret' # prop_ret
    /\ UNCHANGED <<arch, mutations>>

GetIndexProperties == GetProperties("None")

GetSegmentProperties == GetProperties("0")

\* A caller writes into a table it was given: the object is the one the
\* memo holds
CallerWrites ==
    /\ mutations < MaxMutations
    /\ \E segment \in DOMAIN prop_memo :
         prop_memo' = [prop_memo EXCEPT ![segment] = Put(@, KUnit, Str(<<"N">>))]
    /\ mutations' = mutations + 1
    /\ UNCHANGED <<arch, prop_ret>>

NoCall == [segment |-> "", computed |-> FALSE, table |-> <<>>]

IdleProperties ==
    /\ arch = <<>>
    /\ prop_memo = <<>>
    /\ prop_ret = NoCall
    /\ mutations = 0

StartProperties ==
    /\ arch \in Archives
    /\ prop_memo = <<>>
    /\ prop_ret = NoCall
    /\ mutations = 0

\* The archives without shared and general entries
StartMemo ==
    /\ arch \in {a \in Archives : a.shared = <<>> /\ a.general = <<>>}
    /\ prop_memo = <<>>
    /\ prop_ret = NoCall
    /\ mutations = 0

\* =====================================================================
\* JPKReader.get_metadata
\* =====================================================================

\* What the recipes find in the property table of one segment: the curve
\* type, the point count, the (segment) duration, the setpoint (0: the
\* segment has none) and the pause type
Reading(curve_type, point_count, duration, setpoint, pause_type) ==
    [curve_type |-> curve_type, point_count |-> point_count,
     duration |-> duration, setpoint |-> setpoint, pause_type |-> pause_type]

\* The values of one segment: <<point count, duration, setpoint>>
Values == { <<1, 2, 0>>, <<2, 1, 1>>, <<3, 3, 2>> }

Segment2Curves ==
    { << Reading("extend", a[1], a[2], a[3], ""),
         Reading("retract", b[1], b[2], b[3], "") >> : a \in Values, b \in Values }

Segment3Curves ==
    { << Reading("extend", a[1], a[2], a[3], ""),
         Reading("pause", 2, 1, 1, "constant-force-pause"),
         Reading("retract", c[1], c[2], c[3], "") >> : a \in Values, c \in Values }

OtherCurves ==
    { << Reading("extend", 1, 2, 0, ""),
         Reading("pause", 2, 1, 1, p),
         Reading("retract", 3, 3, 2, "") >> :
        p \in {"constant-height-pause", "unknown-pause"} }
    \cup { << Reading("extend", 1, 2, 0, ""), Reading("extend", 2, 1, 1, ""),
              Reading("retract", 3, 3, 2, "") >>,
           << Reading("extend", 1, 2, 0, "") >> }

CurvePool == Segment2Curves \cup Segment3Curves \cup OtherCurves

\* The curve indices of the archives of the model
CurveIndices == {0, 1}

\* Bound of the metadata model: get_metadata calls of callers in one run
MaxQueries == 2

\* get_index_segment_numbers(index), lines 282-294
SegmentNumbers(archive, index) ==
    [i \in 1..Len(archive[index]) |-> i - 1]

\* lines 367-370
CurveConv(curve_type) ==
    CASE curve_type = "extend" -> "approach"
      [] curve_type = "pause" -> "intermediate"
      [] curve_type = "retract" -> "retract"

Ok(md) == [ok |-> TRUE, md |-> md, err |-> ""]

Raised(err) == [ok |-> FALSE, md |-> <<>>, err |-> err]

\* A faulty count: the segments of the curve that is asked for
NumSegmentsOfIndex(archive, index) == Len(SegmentNumbers(archive, index))

\* line 379: len(self.get_index_segment_numbers(0))
NumSegments(archive, index) == Len(SegmentNumbers(archive, 0))

\* lines 379-396: the imaging mode entry, or the error raised
ImagingMode(num_segments, segment, reading) ==
    IF num_segments = 2 THEN Ok("imaging mode" :> "force-distance")
    ELSE IF num_segments = 3
    THEN IF segment = 1
         THEN IF reading.curve_type # "pause" THEN Raised("ValueError")
              ELSE IF reading.pause_type = "constant-force-pause"
                   THEN Ok("imaging mode" :> "creep-compliance")
              ELSE IF reading.pause_type = "constant-height-pause"
                   THEN Ok("imaging mode" :> "stress-relaxation")
              ELSE Raised("ValueError")
         ELSE Ok(<<>>)
    ELSE Raised("ValueError")

\* get_metadata(index, segment) for a segment, lines 335-418; quotients are
\* kept as <<numerator, denominator>>
SegmentMetadata(archive, index, segment) ==
    LET reading == archive[index][segment + 1]
        curseg == CurveConv(reading.curve_type)
        primary == ("point count" :> reading.point_count)
                   @@ ("duration" :> reading.duration)
                   @@ ("software" :> "JPK")
                   @@ ("enum" :> index)
        rates == IF curseg \in {"approach", "retract"}
                 THEN IF curseg = "approach"
                      THEN "rate approach" :> <<reading.point_count, reading.duration>>
                      ELSE "rate retract" :> <<reading.point_count, reading.duration>>
                 ELSE <<>>
        durations == CASE curseg = "approach" -> "duration approach" :> reading.duration
                       [] curseg = "intermediate" ->
                            "duration intermediate" :> reading.duration
                       [] curseg = "retract" -> "duration retract" :> reading.duration
        mode == ImagingMode(NumSegments(archive, index), segment, reading)
        setpoint == IF reading.setpoint # 0
                    THEN "setpoint" :> reading.setpoint
                    ELSE <<>>
        date == IF curseg = "approach"
                THEN ("date" :> "2020-01-01") @@ ("time" :> "12:00:00")
                ELSE <<>>
    IN  IF mode.ok
        THEN Ok(date @@ setpoint @@ mode.md @@ durations @@ rates @@ primary)
        ELSE mode

\* A faulty copy: mdap is the memoized record itself, the pops reach it
MemoAliased(memo, key, mdap) == [memo EXCEPT ![key] = mdap]

\* line 328: mdap is a deep copy, the pops of lines 330 and 332 do not
\* reach the memoized record
MemoAfterCopy(memo, key, mdap) == memo

\* A faulty order: ascending
Ascending(segments) == segments

\* line 327: [::-1]
Reversed(segments) == [i \in 1..Len(segments) |-> segments[Len(segments) + 1 - i]]

\* dict.pop(key) of a record
Without(md, key) == [k \in DOMAIN md \ {key} |-> md[k]]

\* lines 328-333 for one segment; acc holds md, the memo and the error raised
AggregateStep(acc, archive, index, segment) ==
    LET key == <<index, segment>>
        got == IF key \in DOMAIN acc.memo
               THEN Ok(acc.memo[key])
               ELSE SegmentMetadata(archive, index, segment)
    IN  IF acc.err # "" THEN acc
        ELSE IF ~got.ok THEN [acc EXCEPT !.err = got.err]
        ELSE LET memo1 == (key :> got.md) @@ acc.memo
                 popd == "duration" \in DOMAIN acc.md
                 popp == "point count" \in DOMAIN acc.md
                 md1 == IF popd
                        THEN [acc.md EXCEPT !["duration"] = @ + got.md["duration"]]
                        ELSE acc.md
                 mdap1 == IF popd THEN Without(got.md, "duration") ELSE got.md
                 md2 == IF popp
                        THEN [md1 EXCEPT !["point count"] = @ + mdap1["point count"]]
                        ELSE md1
                 mdap2 == IF popp THEN Without(mdap1, "point count") ELSE mdap1
             IN  [md |-> mdap2 @@ md2,
                  memo |-> MemoAfterCopy(memo1, key, mdap2),
                  err |-> "",
                  order |-> Append(acc.order, segment)]

\* the loop of lines 327-333
RECURSIVE Aggregate(_, _, _, _)
Aggregate(acc, archive, index, segments) ==
    IF segments = <<>> THEN acc
    ELSE Aggregate(AggregateStep(acc, archive, index, Head(segments)),
                   archive, index, Tail(segments))

\* get_metadata(index, segment) of a caller for one segment, memoized
GetSegmentMetadata ==
    /\ queries < MaxQueries
    /\ \E index \in CurveIndices :
         \E segment \in Range(SegmentNumbers(arch_md, index)) :
            LET key == <<index, segment>>
                got == IF key \in DOMAIN md_memo
                       THEN Ok(md_memo[key])
                       ELSE SegmentMetadata(arch_md, index, segment)
            IN  /\ md_memo' = IF got.ok THEN (key :> got.md) @@ md_memo ELSE md_memo
                /\ md_ret' = [index |-> index, segment |-> segment, ok |-> got.ok,
                              md |-> got.md, err |-> got.err,
                              order |-> <<>>, before |-> md_memo]
    /\ queries' = queries + 1
    /\ UNCHANGED arch_md

\* get_metadata(index, None) of a caller, lines 324-334
GetCurveMetadata ==
    /\ queries < MaxQueries
    /\ \E index \in CurveIndices :
         LET start == [md |-> <<>>, memo |-> md_memo, err |-> "", order |-> <<>>]
             end == Aggregate(start, arch_md, index,
                              Reversed(SegmentNumbers(arch_md, index)))
         IN  /\ md_memo' = end.memo
             /\ md_ret' = [index |-> index, segment |-> -1, ok |-> end.err = "",
                           md |-> IF end.err = "" THEN end.md ELSE <<>>,
                           err |-> end.err,
                           order |-> end.order, before |-> md_memo]
    /\ queries' = queries + 1
    /\ UNCHANGED arch_md

NoQuery ==
    [index |-> -1, segment |-> -1, ok |-> FALSE, md |-> <<>>, err |-> "",
     order |-> <<>>, before |-> <<>>]

IdleMetadata ==
    /\ arch_md = <<>>
    /\ md_memo = <<>>
    /\ md_ret = NoQuery
    /\ queries = 0

StartMetadata ==
    /\ arch_md \in [CurveIndices -> CurvePool]
    /\ md_memo = <<>>
    /\ md_ret = NoQuery
    /\ queries = 0

\* =====================================================================
\* AFMForceDistance and Segment (mod_force_distance.py)
\* =====================================================================

\* Bounds of the dataset model
NumRows == 2         \* rows of the dataset
MaxWrites == 2       \* __setitem__ calls in one run

\* A "segment" column: one flag per row (False is 0, True is 1)
Flags(n) == [1..n -> {0, 1}]

\* The row numbers, as the values of the "force" column
RowNumbers(n) == [i \in 1..n |-> i]

\* len(self): the number of rows of the raw data
DatasetLen(raw) == Len(raw["force"])

\* A faulty test: only a longer column is refused
IsLonger(values, length) == Len(values) > length

\* line 14: len(values) != len(self)
LengthDiffers(values, length) == Len(values) # length

\* AFMForceDistance.__setitem__(key, values), lines 13-19
SetItem(key, values) ==
    /\ writes < MaxWrites
    /\ IF LengthDiffers(values, DatasetLen(raw_data))
       THEN /\ set_ret' = [key |-> key, values |-> values, err |-> "ValueError",
                           before |-> data]
            /\ UNCHANGED data
       ELSE /\ set_ret' = [key |-> key, values |-> values, err |-> "",
                           before |-> data]
            /\ data' = (key :> values) @@ data
    /\ writes' = writes + 1
    /\ UNCHANGED <<raw_data, raw_init, view, item, seg_ret>>

\* a caller writes a column of some length
SetColumn ==
    \E key \in {"segment", "height"} :
        \E n \in (NumRows - 1)..(NumRows + 1) :
            \E values \in Flags(n) : SetItem(key, values)

\* lines 46-49
IdxOf(which) == IF which = "approach" THEN 0 ELSE 1

\* column == idx, elementwise
EqualsFlag(column, idx) == [i \in 1..Len(column) |-> column[i] = idx]

\* Segment.__init__(raw_data, data, which), lines 40-59
SegmentInit(raw, derived, which) ==
    IF "segment" \in DOMAIN raw
    THEN [which |-> which, idx |-> IdxOf(which), err |-> "",
          segment_index |-> EqualsFlag(raw["segment"], IdxOf(which))]
    ELSE IF "segment" \in DOMAIN derived
    THEN [which |-> which, idx |-> IdxOf(which), err |-> "",
          segment_index |-> EqualsFlag(derived["segment"], IdxOf(which))]
    ELSE [which |-> which, idx |-> IdxOf(which), err |-> "ValueError",
          segment_index |-> <<>>]

\* AFMForceDistance.appr, lines 21-24
Appr ==
    /\ view' = SegmentInit(raw_data, data, "approach")
    /\ view' # view
    /\ item' = <<>>
    /\ UNCHANGED <<raw_data, raw_init, data, set_ret, writes, seg_ret>>

\* AFMForceDistance.retr, lines 31-34
Retr ==
    /\ view' = SegmentInit(raw_data, data, "retract")
    /\ view' # view
    /\ item' = <<>>
    /\ UNCHANGED <<raw_data, raw_init, data, set_ret, writes, seg_ret>>

\* column[segment_index] for a boolean mask
RECURSIVE Masked(_, _)
Masked(column, mask) ==
    IF column = <<>> \/ mask = <<>> THEN <<>>
    ELSE (IF Head(mask) THEN <<Head(column)>> ELSE <<>>)
         \o Masked(Tail(column), Tail(mask))

\* Segment.__getitem__(key), lines 61-67, on the view made last
GetItem ==
    /\ view.which # "" /\ view.err = ""
    /\ \E key \in {"segment", "force", "height"} :
         item' = IF key \in DOMAIN data
                THEN [key |-> key, err |-> "",
                      rows |-> Masked(data[key], view.segment_index)]
                ELSE IF key \in DOMAIN raw_data
                THEN [key |-> key, err |-> "",
                      rows |-> Masked(raw_data[key], view.segment_index)]
                ELSE [key |-> key, err |-> "KeyError", rows |-> <<>>]
    /\ item' # item
    /\ UNCHANGED <<raw_data, raw_init, data, set_ret, writes, view, seg_ret>>

NoView == [which |-> "", idx |-> 0, err |-> "", segment_index |-> <<>>]

NoWrite == [key |-> "", values |-> <<>>, err |-> "", before |-> <<>>]

\* no get_data call of the loader yet
NoData == [index |-> -1, ok |-> FALSE, err |-> ""]

IdleDataset ==
    /\ raw_data = <<>>
    /\ raw_init = <<>>
    /\ data = <<>>
    /\ set_ret = NoWrite
    /\ writes = 0
    /\ view = NoView
    /\ item = <<>>
    /\ seg_ret = NoData

\* A dataset as the loader makes it (formats.py:20-22): the columns of the
\* file are the raw data, nothing is derived yet
StartDataset ==
    /\ raw_data \in {"force" :> RowNumbers(NumRows)}
                    \cup {("segment" :> flags) @@ ("force" :> RowNumbers(NumRows)) :
                            flags \in Flags(NumRows)}
    /\ raw_init = raw_data
    /\ data = <<>>
    /\ set_ret = NoWrite
    /\ writes = 0
    /\ view = NoView
    /\ item = <<>>
    /\ seg_ret = NoData

\* ---------------------------------------------------------------------
\* JPKReader.get_data("segment", index, None) and the dataset made of it
\* ---------------------------------------------------------------------

\* np.ones(point_count, dtype) * dtype(segment), line 227: the dtype is
\* bool for at most 2 segments (line 223) and uint8 otherwise; False is 0
\* and True is 1
SegmentColumn(num_segments, point_count, segment) ==
    [i \in 1..point_count |->
        IF num_segments <= 2 THEN (IF segment = 0 THEN 0 ELSE 1) ELSE segment]

\* get_data("segment", index, segment) for one segment, lines 208-227:
\* get_metadata(index, segment) comes first and goes through its memo
DataStep(acc, archive, index, segment) ==
    LET key == <<index, segment>>
        found == IF key \in DOMAIN acc.memo
                 THEN Ok(acc.memo[key])
                 ELSE SegmentMetadata(archive, index, segment)
    IN  IF acc.err # "" THEN acc
        ELSE IF ~found.ok THEN [acc EXCEPT !.err = found.err]
        ELSE [memo |-> (key :> found.md) @@ acc.memo,
              err |-> "",
              column |-> acc.column
                         \o SegmentColumn(Len(SegmentNumbers(archive, index)),
                                          found.md["point count"], segment)]

\* get_data("segment", index, None), lines 200-207: the segments in
\* ascending order, concatenated
RECURSIVE DataOver(_, _, _, _)
DataOver(acc, archive, index, numsegs) ==
    IF numsegs = <<>> THEN acc
    ELSE DataOver(DataStep(acc, archive, index, Head(numsegs)),
                  archive, index, Tail(numsegs))

GetDataSegment(memo, archive, index) ==
    DataOver([memo |-> memo, err |-> "", column |-> <<>>],
             archive, index, SegmentNumbers(archive, index))

\* The loader reads the "segment" column of curve index with get_data and
\* load_data makes the dataset of it (formats.py:19-23); nothing is
\* loaded when get_data raises
LoadCurve ==
    \E index \in CurveIndices :
        LET res == GetDataSegment(md_memo, arch_md, index)
        IN  /\ md_memo' = res.memo
            /\ seg_ret' = [index |-> index, ok |-> res.err = "", err |-> res.err]
            /\ seg_ret' # seg_ret
            /\ IF res.err = ""
               THEN /\ raw_data' = ("segment" :> res.column)
                                   @@ ("force" :> RowNumbers(Len(res.column)))
                    /\ raw_init' = raw_data'
                    /\ data' = <<>>
                    /\ set_ret' = NoWrite
                    /\ writes' = 0
                    /\ view' = NoView
                    /\ item' = <<>>
               ELSE UNCHANGED <<raw_data, raw_init, data, set_ret, writes,
                                view, item>>
            /\ UNCHANGED <<arch_md, md_ret, queries>>

\* =====================================================================
\* Specifications
\* =====================================================================

\* The cache after class creation, lines 32-33
InitCache == IdleCache /\ IdleListing /\ IdleProperties /\ IdleMetadata /\ IdleDataset

NextCache ==
    \/ GetResident /\ UNCHANGED <<listVars, propVars, metaVars, dataVars>>
    \/ GetEvicted /\ UNCHANGED <<listVars, propVars, metaVars, dataVars>>
    \/ GetNew /\ UNCHANGED <<listVars, propVars, metaVars, dataVars>>

SpecCache == InitCache /\ [][NextCache]_vars

\* A reader on an archive with any listing of the pool, nothing memoized yet
InitListing == IdleCache /\ StartListing /\ IdleProperties /\ IdleMetadata /\ IdleDataset

NextListing ==
    \/ Files /\ UNCHANGED <<cacheVars, propVars, metaVars, dataVars>>
    \/ GetIndexNumbers /\ UNCHANGED <<cacheVars, propVars, metaVars, dataVars>>

SpecListing == InitListing /\ [][NextListing]_vars

\* A reader on any archive of the model, nothing memoized yet
InitProperties == IdleCache /\ IdleListing /\ StartProperties /\ IdleMetadata /\ IdleDataset

NextProperties ==
    \/ GetIndexProperties /\ UNCHANGED <<cacheVars, listVars, metaVars, dataVars>>
    \/ GetSegmentProperties /\ UNCHANGED <<cacheVars, listVars, metaVars, dataVars>>

SpecProperties == InitProperties /\ [][NextProperties]_vars

\* A reader whose callers write into the tables they are given
InitMemo == IdleCache /\ IdleListing /\ StartMemo /\ IdleMetadata /\ IdleDataset

NextMemo ==
    \/ GetIndexProperties /\ UNCHANGED <<cacheVars, listVars, metaVars, dataVars>>
    \/ GetSegmentProperties /\ UNCHANGED <<cacheVars, listVars, metaVars, dataVars>>
    \/ CallerWrites /\ UNCHANGED <<cacheVars, listVars, metaVars, dataVars>>

SpecMemo == InitMemo /\ [][NextMemo]_vars

\* A reader on an archive of two curves, nothing memoized yet
InitMetadata == IdleCache /\ IdleListing /\ IdleProperties /\ StartMetadata /\ IdleDataset

NextMetadata ==
    \/ GetSegmentMetadata /\ UNCHANGED <<cacheVars, listVars, propVars, dataVars>>
    \/ GetCurveMetadata /\ UNCHANGED <<cacheVars, listVars, propVars, dataVars>>

SpecMetadata == InitMetadata /\ [][NextMetadata]_vars

\* A dataset fresh from the loader
InitDataset ==
    IdleCache /\ IdleListing /\ IdleProperties /\ IdleMetadata /\ StartDataset

NextDataset ==
    \/ SetColumn /\ UNCHANGED <<cacheVars, listVars, propVars, metaVars>>
    \/ Appr /\ UNCHANGED <<cacheVars, listVars, propVars, metaVars>>
    \/ Retr /\ UNCHANGED <<cacheVars, listVars, propVars, metaVars>>
    \/ GetItem /\ UNCHANGED <<cacheVars, listVars, propVars, metaVars>>

SpecDataset == InitDataset /\ [][NextDataset]_vars

\* An archive of curves; the loader makes a dataset of one of them
InitCurve ==
    IdleCache /\ IdleListing /\ IdleProperties /\ StartMetadata /\ IdleDataset

NextCurve ==
    \/ LoadCurve /\ UNCHANGED <<cacheVars, listVars, propVars>>
    \/ seg_ret.ok /\ Appr /\ UNCHANGED <<cacheVars, listVars, propVars, metaVars>>
    \/ seg_ret.ok /\ Retr /\ UNCHANGED <<cacheVars, listVars, propVars, metaVars>>
    \/ seg_ret.ok /\ GetItem /\ UNCHANGED <<cacheVars, listVars, propVars, metaVars>>

SpecCurve == InitCurve /\ [][NextCurve]_vars

\* The first path segment in which two names differ (0: none)
FirstDifference(x, y) ==
    LET xs == Split(x, "/")
        ys == Split(y, "/")
        ds == {k \in 1..Min(Len(xs), Len(ys)) : xs[k] # ys[k]}
    IN  IF ds = {} THEN 0 ELSE CHOOSE k \in ds : \A m \in ds : k <= m

\* C3: in the listing, names that first differ in a numeric path segment
\* stand in the order of the integer values of that segment, and the index
\* numbers of an indexed archive ascend.
NaturalOrder ==
    /\ "files" \in listing =>
         \A i, j \in 1..Len(files) :
            LET k == FirstDifference(files[i], files[j])
                a == Split(files[i], "/")
                b == Split(files[j], "/")
            IN  (i < j /\ k > 0 /\ IsNumeric(a[k]) /\ IsNumeric(b[k]))
                    => ToInt(a[k]) <= ToInt(b[k])
    /\ "indices" \in listing =>
         \A i, j \in 1..Len(indices) : i < j => indices[i] <= indices[j]

\* ---- the substitution, stated on the tables (not on the loops)

Comps(key) == Split(key, ".")

PointerKeys(m) == {key \in DOMAIN m : CountDotStar(key) > 0}

\* the shared key k2 is an entry of the mediator of key under the pointer
\* that key holds: its first component is the mediator, its second the pointer
RefersTo(m, key, k2) ==
    /\ Len(Comps(k2)) >= 3
    /\ Comps(k2)[1] = Comps(key)[Len(Comps(key)) - 1]
    /\ Comps(k2)[2] = m[key].val

\* the key without its last two components (a key of two components keeps
\* its first component)
HeadOf(key) == Join(SubSeq(Comps(key), 1, Max(1, Len(Comps(key)) - 2)), ".")

SuffixOf(k2) == Join(SubSeq(Comps(k2), 3, Len(Comps(k2))), ".")

Writers(m, shared, t) ==
    { w \in PointerKeys(m) \X DOMAIN shared :
        RefersTo(m, w[1], w[2]) /\ HeadOf(w[1]) \o <<".">> \o SuffixOf(w[2]) = t }

Targets(m, shared) ==
    { HeadOf(w[1]) \o <<".">> \o SuffixOf(w[2]) :
        w \in {x \in PointerKeys(m) \X DOMAIN shared : RefersTo(m, x[1], x[2])} }

\* the writer of t that comes last in ascending order of key, then shared key
LastWriter(m, shared, t) ==
    CHOOSE w \in Writers(m, shared, t) :
        \A x \in Writers(m, shared, t) \ {w} :
            StrLess(x[1], w[1]) \/ (x[1] = w[1] /\ StrLess(x[2], w[2]))

Holds(table, key, value) == key \in DOMAIN table /\ table[key] = value

\* the table holds the text, or the float it parses to, under the key
HoldsValue(table, key, value) ==
    \/ Holds(table, key, value)
    \/ IsNumeric(value.val) /\ Holds(table, key, Float(Decimal(ToInt(value.val))))

S3 == SharedKey("lcd-info", <<"3">>, HeaderUnit)

\* C4 as stated: with channel.vDeflection.lcd-info.0 = "3" in the segment
\* table and lcd-info.3.force-segment-header.unit = "N" in the shared table
\* (and nothing else that sets the key), the table computed for the segment
\* holds channel.vDeflection.force-segment-header.unit = "N".
SubstitutionOfKeyZero ==
    ( /\ prop_ret.computed /\ prop_ret.segment = "0"
      /\ Holds(arch.segment, KZero, Str(<<"3">>))
      /\ Holds(arch.shared, S3, Str(<<"N">>))
      /\ KHeaderUnit \notin DOMAIN arch.general )
    => Holds(prop_ret.table, KHeaderUnit, Str(<<"N">>))

\* the ".*" keys of m behind key in ascending order that write t
LaterWriters(m, shared, key, t) ==
    { w \in Writers(m, shared, t) : StrLess(key, w[1]) }

\* C4 as amended: with channel.vDeflection.lcd-info.* = "3" in the segment
\* table and lcd-info.3.force-segment-header.unit = "N" in the shared table,
\* the table computed for the segment holds
\* channel.vDeflection.force-segment-header.unit = "N", unless the general
\* table sets that key or a ".*" key that sorts behind it resolves to it.
SubstitutionOfKeyStar ==
    ( /\ prop_ret.computed /\ prop_ret.segment = "0"
      /\ Holds(arch.segment, KStar, Str(<<"3">>))
      /\ Holds(arch.shared, S3, Str(<<"N">>))
      /\ KHeaderUnit \notin DOMAIN arch.general
      /\ LaterWriters(Merged(arch, "0"), arch.shared, KStar, KHeaderUnit) = {} )
    => Holds(prop_ret.table, KHeaderUnit, Str(<<"N">>))

\* C4 witness: the example has been resolved, next to another ".*" key
SubstitutionOfKeyStarDone ==
    /\ prop_ret.computed /\ prop_ret.segment = "0"
    /\ Holds(arch.segment, KStar, Str(<<"3">>))
    /\ Holds(arch.shared, S3, Str(<<"N">>))
    /\ KPos \in DOMAIN arch.index
    /\ Holds(prop_ret.table, KHeaderUnit, Str(<<"N">>))

\* C5 as stated: every shared entry (k2, v) under "mediator.p." of a ".*" key
\* is in the result as headkey.suffix = v (v as text or as the float it
\* parses to) unless the general table sets that key, and nothing else is
\* copied from the shared table.
SubstitutionCopiesEvery ==
    prop_ret.computed =>
        LET m == Merged(arch, prop_ret.segment)
        IN  /\ \A key \in PointerKeys(m) : \A k2 \in DOMAIN arch.shared :
                 LET t == HeadOf(key) \o <<".">> \o SuffixOf(k2)
                 IN  (RefersTo(m, key, k2) /\ t \notin DOMAIN arch.general)
                        => HoldsValue(prop_ret.table, t, arch.shared[k2])
            /\ \A t \in DOMAIN prop_ret.table \ (DOMAIN m \cup DOMAIN arch.general) :
                 \E key \in PointerKeys(m) : \E k2 \in DOMAIN arch.shared :
                    /\ RefersTo(m, key, k2)
                    /\ t = HeadOf(key) \o <<".">> \o SuffixOf(k2)

\* C5 as amended: for every key t that some ".*" key writes (headkey.suffix,
\* the head key of a two-component key being its first component) and the
\* general table does not set, the result holds the value of the last writer
\* in ascending key order, as a float when it parses as a number and not at
\* all when that number is NaN; and nothing else is copied from the shared
\* table (pointer 1 does not pick up the entries of pointer 10).
SubstitutionCopiesLast ==
    prop_ret.computed =>
        LET m == Merged(arch, prop_ret.segment)
        IN  /\ \A t \in Targets(m, arch.shared) \ DOMAIN arch.general :
                 LET v == arch.shared[LastWriter(m, arch.shared, t)[2]]
                 IN  IF v.val = <<"nan">>
                     THEN t \notin DOMAIN prop_ret.table
                     ELSE /\ HoldsValue(prop_ret.table, t, v)
                          /\ IsNumeric(v.val) <=> prop_ret.table[t].kind = "float"
            /\ \A t \in DOMAIN prop_ret.table \ (DOMAIN m \cup DOMAIN arch.general) :
                 t \in Targets(m, arch.shared)

\* C5 witness: a ".*" key with pointer 1 has copied an entry while the shared
\* table also holds an entry of pointer 10
PointerOneBesideTen ==
    /\ prop_ret.computed
    /\ \E key \in PointerKeys(Merged(arch, prop_ret.segment)) :
         /\ Merged(arch, prop_ret.segment)[key].val = <<"1">>
         /\ \E k2 \in DOMAIN arch.shared :
              /\ RefersTo(Merged(arch, prop_ret.segment), key, k2)
              /\ HeadOf(key) \o <<".">> \o SuffixOf(k2) \in DOMAIN prop_ret.table
         /\ \E k3 \in DOMAIN arch.shared :
              /\ Comps(k3)[1] = Comps(key)[Len(Comps(key)) - 1]
              /\ Comps(k3)[2] = <<"1", "0">>

\* C6: every call returns the table built from the archive for its segment,
\* whatever callers did with the tables returned before.
FreshTablePerCall ==
    prop_ret.segment # "" => prop_ret.table = Properties(arch, prop_ret.segment)

RECURSIVE SumOver(_, _, _)
SumOver(memo, keys, field) ==
    IF keys = {} THEN 0
    ELSE LET k == CHOOSE x \in keys : TRUE
         IN  memo[k][field] + SumOver(memo, keys \ {k}, field)

\* C7: when get_metadata(idx, None) returns a record, it went through the
\* segments in descending order, its "point count" and "duration" are the
\* sums over the memoized records of all segments of the curve, every other
\* key of the record of segment 0 has the value of segment 0, and the
\* records that were memoized before the call are as they were.
AggregationSums ==
    (md_ret.segment = -1 /\ md_ret.ok) =>
        LET segs == Range(SegmentNumbers(arch_md, md_ret.index))
            keys == {<<md_ret.index, s>> : s \in segs}
        IN  /\ md_ret.order = [i \in 1..Cardinality(segs) |-> Cardinality(segs) - i]
            /\ keys \subseteq DOMAIN md_memo
            /\ \A k \in keys : {"point count", "duration"} \subseteq DOMAIN md_memo[k]
            /\ \A k \in keys :
                 md_memo[k] = SegmentMetadata(arch_md, k[1], k[2]).md
            /\ md_ret.md["point count"] = SumOver(md_memo, keys, "point count")
            /\ md_ret.md["duration"] = SumOver(md_memo, keys, "duration")
            /\ \A f \in DOMAIN md_memo[<<md_ret.index, 0>>] \ {"point count", "duration"} :
                 md_ret.md[f] = md_memo[<<md_ret.index, 0>>][f]
            /\ \A k \in DOMAIN md_ret.before : md_memo[k] = md_ret.before[k]

\* C7 witness: a curve of three segments with different setpoints has been
\* aggregated after one of its segments was memoized
AggregatedThreeSegments ==
    /\ md_ret.segment = -1 /\ md_ret.ok
    /\ Len(arch_md[md_ret.index]) = 3
    /\ arch_md[md_ret.index][1].setpoint # 0
    /\ arch_md[md_ret.index][3].setpoint # 0
    /\ arch_md[md_ret.index][1].setpoint # arch_md[md_ret.index][3].setpoint
    /\ \E s \in 0..2 : <<md_ret.index, s>> \in DOMAIN md_ret.before

\* C8: in an archive whose curves have two or three segments, every
\* get_metadata call on a curve of exactly two segments, for a segment or for
\* the whole curve, returns "imaging mode" = "force-distance".
TwoSegmentsAreForceDistance ==
    ( /\ md_ret.index \in CurveIndices
      /\ Len(arch_md[md_ret.index]) = 2
      /\ \A i \in CurveIndices : Len(arch_md[i]) \in {2, 3} ) =>
        /\ md_ret.ok
        /\ "imaging mode" \in DOMAIN md_ret.md
        /\ md_ret.md["imaging mode"] = "force-distance"

\* C9: a view takes its mask from the "segment" column of the derived
\* mapping when that column is there, and from the raw mapping otherwise.
MaskFromDerivedFirst ==
    [][ (view' # view /\ view'.err = "") =>
            view'.segment_index =
                EqualsFlag(IF "segment" \in DOMAIN data
                           THEN data["segment"] ELSE raw_data["segment"],
                           IF view'.which = "approach" THEN 0 ELSE 1)
      ]_vars

\* C10: a write whose length differs from the dataset length fails and
\* leaves the derived mapping as it was, a write of the dataset length is
\* stored in the derived mapping; the raw mapping never changes and every
\* derived column has the dataset length.
WritesKeepLength ==
    /\ raw_data = raw_init
    /\ \A key \in DOMAIN data : Len(data[key]) = DatasetLen(raw_data)
    /\ set_ret.key # "" =>
         IF Len(set_ret.values) # DatasetLen(raw_data)
         THEN set_ret.err = "ValueError" /\ data = set_ret.before
         ELSE /\ set_ret.err = ""
              /\ data[set_ret.key] = set_ret.values
              /\ \A key \in DOMAIN set_ret.before \ {set_ret.key} :
                   data[key] = set_ret.before[key]
              /\ DOMAIN data = DOMAIN set_ret.before \cup {set_ret.key}

\* C10 witness: a column was stored, then a shorter one was refused
ShortWriteRefused ==
    /\ set_ret.err = "ValueError"
    /\ Len(set_ret.values) < NumRows
    /\ set_ret.before # <<>>
    /\ data = set_ret.before

\* The segment number of every row of a curve, in row order
RECURSIVE RowSegments(_, _)
RowSegments(curve, segment) ==
    IF segment >= Len(curve) THEN <<>>
    ELSE [i \in 1..curve[segment + 1].point_count |-> segment]
         \o RowSegments(curve, segment + 1)

\* The curve is extend, retract or extend, pause, retract
HasTwoOrThreeSegments(curve) ==
    \/ Len(curve) = 2 /\ curve[1].curve_type = "extend"
                      /\ curve[2].curve_type = "retract"
    \/ Len(curve) = 3 /\ curve[1].curve_type = "extend"
                      /\ curve[2].curve_type = "pause"
                      /\ curve[3].curve_type = "retract"

\* C11: for a curve of 2 or of 3 segments whose "segment" column comes from
\* get_data("segment", index, None), the approach view selects exactly the
\* rows of the approach segment and the retract view exactly the rows of
\* the retract segment; no row of a pause segment is in either view.
ViewsSelectTheirSegment ==
    (seg_ret.ok /\ view.which # "" /\ view.err = ""
       /\ HasTwoOrThreeSegments(arch_md[seg_ret.index])) =>
        LET curve == arch_md[seg_ret.index]
            rows == RowSegments(curve, 0)
        IN  /\ Len(view.segment_index) = Len(rows)
            /\ \A r \in 1..Len(rows) :
                 view.segment_index[r]
                    <=> CurveConv(curve[rows[r] + 1].curve_type) = view.which

\* C1: between calls at most max_archives handles are open, the open handles
\* are exactly those held in open_archives, and every handle that has left
\* open_archives has been closed.
CacheBounded ==
    /\ Cardinality(OpenHandles) <= max_archives
    /\ OpenHandles = CachedArcs(open_archives)
    /\ (1..nhandles) \ CachedArcs(open_archives) \subseteq closed

\* C1 witness: the cache is full and handles have been evicted
CacheFullAfterEviction ==
    /\ Len(open_archives) = max_archives
    /\ Cardinality(closed) >= 2

\* C2: a get that evicts closes a path that was passed to get less recently
\* than every path that stays resident, and the path passed to get is the
\* most recently used entry afterwards (so a resident path that is requested
\* again outlives every path requested before that get).
EvictsLeastRecentlyUsed ==
    [][ /\ \A p \in CachedPaths(open_archives) \ CachedPaths(open_archives') :
             \A q \in CachedPaths(open_archives') : lastuse[p] < lastuse'[q]
        /\ \A p \in Paths :
             lastuse'[p] # lastuse[p] =>
                /\ open_archives' # <<>>
                /\ open_archives'[Len(open_archives')].path = p
        /\ \A i, j \in 1..Len(open_archives') :
             i < j => lastuse'[open_archives'[i].path] < lastuse'[open_archives'[j].path]
      ]_vars

\* C2 witness: a resident path was requested again and then survived an
\* eviction: its handle is still open although a handle opened later is closed
PromotedOutlivesNewer ==
    /\ hits > 0
    /\ \E i \in 1..Len(open_archives) :
         \E h \in closed : h > open_archives[i].arc

====
